---- MODULE Spec2Model ----
(***************************************************************************)
(* The value-marshaling engine of sos-julia (src/src/sos_julia/kernel.py): *)
(* the host-side encoder _julia_repr, the guest-side decoder library       *)
(* __julia_py_repr, the host-side evaluation of transfer expressions in    *)
(* put_vars, and the lazy package loader load.                             *)
(*                                                                         *)
(* Source text that the code emits is represented by its syntax tree; the  *)
(* places where the code splices content into a literal without escaping   *)
(* it (string bodies) keep the raw characters, and the reading side scans  *)
(* them character by character.  Every value is a record [k, v]: k is the  *)
(* kind (a type name), v the payload.                                      *)
(***************************************************************************)
EXTENDS Integers, Sequences, FiniteSets, TLC

VARIABLES
    loaded,     \* sos_Julia.loaded: packages marked as loaded
    submitted,  \* per package: install snippets handed to run_cell by load
    pending,    \* install snippets handed to run_cell and not awaited
    modules,    \* guest: optional modules defined in the guest session
    nfiles,     \* staged files written so far; their paths are 1..nfiles
    call,       \* the transfer operation in progress, or the last one
    rt          \* round trip of one value through encoder and decoders

vars == <<loaded, submitted, pending, modules, nfiles, call, rt>>

----------------------------------------------------------------------------
(* Characters.  A text is a sequence of characters. *)

DQ == "\""
BS == "\\"
TAB == "\t"
DOLLAR == "$"
SQ == "'"

Error(reason) == [k |-> "Error", v |-> reason]
IsError(x) == x.k = "Error"

RECURSIVE Concat(_)
Concat(ss) == IF ss = <<>> THEN <<>> ELSE Head(ss) \o Concat(Tail(ss))

Contains(s, c) == \E i \in DOMAIN s : s[i] = c

StartsWith(s, p) == Len(s) >= Len(p) /\ SubSeq(s, 1, Len(p)) = p

----------------------------------------------------------------------------
(* Guest (Julia) reading of a string literal body.                         *)

\* Escape sequences the guest recognizes after a backslash, among the
\* characters of the model's alphabet.
JuliaEscapes ==
    [d \in {"t", DQ, BS, DOLLAR, SQ} |->
        CASE d = "t" -> TAB
          [] OTHER -> d]

\* The guest's scan of the source text s that follows an opening """,
\* from position i, with acc the characters read so far: a backslash starts
\* an escape sequence, a dollar sign an interpolation, and the first run of
\* three double quotes closes the literal.
RECURSIVE JuliaTripleScan(_, _, _)
JuliaTripleScan(s, i, acc) ==
    IF i > Len(s) THEN Error("incomplete string literal")
    ELSE IF s[i] = DQ
    THEN IF i + 2 <= Len(s) /\ s[i + 1] = DQ /\ s[i + 2] = DQ
         THEN IF i + 2 = Len(s)
              THEN [k |-> "String", v |-> acc]
              ELSE Error("text follows the string literal")
         ELSE JuliaTripleScan(s, i + 1, Append(acc, DQ))
    ELSE IF s[i] = BS
    THEN IF i < Len(s) /\ s[i + 1] \in DOMAIN JuliaEscapes
         THEN JuliaTripleScan(s, i + 2, Append(acc, JuliaEscapes[s[i + 1]]))
         ELSE Error("invalid escape sequence")
    ELSE IF s[i] = DOLLAR
    THEN Error("interpolation of an undefined name")
    ELSE JuliaTripleScan(s, i + 1, Append(acc, s[i]))

\* Guest value of the literal """body""".
JuliaTripleQuoted(body) == JuliaTripleScan(body \o <<DQ, DQ, DQ>>, 1, <<>>)

\* Guest value of the literal "body" (one double quote each side).
RECURSIVE JuliaQuotedScan(_, _, _)
JuliaQuotedScan(s, i, acc) ==
    IF i > Len(s) THEN Error("incomplete string literal")
    ELSE IF s[i] = DQ
    THEN IF i = Len(s)
         THEN [k |-> "String", v |-> acc]
         ELSE Error("text follows the string literal")
    ELSE IF s[i] = BS
    THEN IF i < Len(s) /\ s[i + 1] \in DOMAIN JuliaEscapes
         THEN JuliaQuotedScan(s, i + 2, Append(acc, JuliaEscapes[s[i + 1]]))
         ELSE Error("invalid escape sequence")
    ELSE IF s[i] = DOLLAR
    THEN Error("interpolation of an undefined name")
    ELSE JuliaQuotedScan(s, i + 1, Append(acc, s[i]))

JuliaQuoted(body) == JuliaQuotedScan(body \o <<DQ>>, 1, <<>>)

\* The guest's display (text/plain) of a String: the characters escaped
\* between double quotes.  This is the text get_response hands back.
RECURSIVE JuliaShowString(_)
JuliaShowString(s) ==
    IF s = <<>> THEN <<>>
    ELSE (CASE Head(s) = DQ -> <<BS, DQ>>
            [] Head(s) = BS -> <<BS, BS>>
            [] Head(s) = DOLLAR -> <<BS, DOLLAR>>
            [] Head(s) = TAB -> <<BS, "t">>
            [] OTHER -> <<Head(s)>>) \o JuliaShowString(Tail(s))

----------------------------------------------------------------------------
(* Host (Python) reading of string literals.                               *)

\* Python's value of the escape sequence backslash-d in a cooked literal:
\* an unrecognized escape keeps the backslash.
PyEscape(d) ==
    CASE d = "t" -> <<TAB>>
      [] d = DQ -> <<DQ>>
      [] d = SQ -> <<SQ>>
      [] d = BS -> <<BS>>
      [] OTHER -> <<BS, d>>

\* The inner eval's input: the outer eval of the displayed string undoes
\* the guest's escaping (first of the two evals of put_vars).
RECURSIVE PyUnescape(_)
PyUnescape(s) ==
    IF s = <<>> THEN <<>>
    ELSE IF Head(s) = BS /\ Len(s) >= 2
    THEN PyEscape(s[2]) \o PyUnescape(Tail(Tail(s)))
    ELSE <<Head(s)>> \o PyUnescape(Tail(s))

\* Index in s, from i, of the first run of three double quotes that no
\* backslash precedes (raw literal: a backslash keeps the next character),
\* or 0.
RECURSIVE PyRawClose(_, _)
PyRawClose(s, i) ==
    IF i + 2 > Len(s) THEN 0
    ELSE IF s[i] = BS THEN PyRawClose(s, i + 2)
    ELSE IF s[i] = DQ /\ s[i + 1] = DQ /\ s[i + 2] = DQ THEN i
    ELSE PyRawClose(s, i + 1)

\* A cooked literal read from position i of s up to its closing delimiter
\* (three quotes when triple, else one): <<value, next position>> or an Error.
RECURSIVE PyCookedScan(_, _, _, _)
PyCookedScan(s, i, acc, triple) ==
    IF i > Len(s) THEN Error("SyntaxError")
    ELSE IF s[i] = BS
    THEN IF i < Len(s)
         THEN PyCookedScan(s, i + 2, acc \o PyEscape(s[i + 1]), triple)
         ELSE Error("SyntaxError")
    ELSE IF s[i] = DQ
    THEN IF ~triple THEN [k |-> "ok", v |-> <<acc, i + 1>>]
         ELSE IF i + 2 <= Len(s) /\ s[i + 1] = DQ /\ s[i + 2] = DQ
         THEN [k |-> "ok", v |-> <<acc, i + 3>>]
         ELSE PyCookedScan(s, i + 1, Append(acc, DQ), triple)
    ELSE PyCookedScan(s, i + 1, Append(acc, s[i]), triple)

\* String literals that directly follow a literal are concatenated to it:
\* the text of s from position i on, read as adjacent cooked literals.
RECURSIVE PyAdjacent(_, _)
PyAdjacent(s, i) ==
    IF i > Len(s) THEN [k |-> "str", v |-> <<>>]
    ELSE IF s[i] # DQ THEN Error("SyntaxError")
    ELSE LET triple == i + 2 <= Len(s) /\ s[i + 1] = DQ /\ s[i + 2] = DQ
             one == PyCookedScan(s, IF triple THEN i + 3 ELSE i + 1, <<>>, triple)
         IN  IF IsError(one) THEN one
             ELSE LET more == PyAdjacent(s, one.v[2])
                  IN  IF IsError(more) THEN more
                      ELSE [k |-> "str", v |-> one.v[1] \o more.v]

\* Host value of the source text r"""body""".
PyRawTriple(body) ==
    LET s == body \o <<DQ, DQ, DQ>>
        i == PyRawClose(s, 1)
    IN  IF i = 0 THEN Error("SyntaxError")
        ELSE LET more == PyAdjacent(s, i + 3)
             IN  IF IsError(more) THEN more
                 ELSE [k |-> "str", v |-> SubSeq(s, 1, i - 1) \o more.v]

----------------------------------------------------------------------------
(* Numbers.  An integer is carried as its decimal text, a float as the     *)
(* name of its value; the tables give what each side prints and reads.     *)

\* Decimal texts of integers that fit the guest's Int (64 bits).
Int64Texts == {"0", "1", "-1", "99"}
\* 2^63: does not fit Int; the guest reads it as an Int128.
WideIntTexts == {"9223372036854775808"}
IntTexts == Int64Texts \cup WideIntTexts

\* Float values: two finite ones, and the non-finite ones.
FiniteFloats == {"0.5", "1e22"}
FloatValues == FiniteFloats \cup {"inf", "nan"}

\* Python's repr of a float.
PyFloatRepr(f) ==
    CASE f = "1e22" -> "1e+22"
      [] OTHER -> f

\* Julia's string(x) of a Float64.
JuliaFloatString(f) ==
    CASE f = "1e22" -> "1.0e22"
      [] f = "inf" -> "Inf"
      [] f = "nan" -> "NaN"
      [] OTHER -> f

\* The float a numeric literal denotes (both languages read these alike),
\* or "" when the text is no numeric literal.
FloatOfText(t) ==
    CASE t \in {"1e+22", "1.0e22"} -> "1e22"
      [] t \in {"inf", "nan", "Inf", "NaN"} -> ""
      [] OTHER -> t

\* Julia's conversion of an Int to Float64 and of a Bool to Int, used when
\* an array literal promotes its elements to one type.
JuliaFloatOfInt(t) == IF t = "1" THEN "1.0" ELSE IF t = "0" THEN "0.0" ELSE t \o ".0"
JuliaIntOfBool(b) == IF b THEN "1" ELSE "0"

----------------------------------------------------------------------------
(* Host values (kind = Python type) and the encoder _julia_repr.           *)

HBool(b) == [k |-> "bool", v |-> b]
HInt(t) == [k |-> "int", v |-> t]
HFloat(f) == [k |-> "float", v |-> f]
HStr(s) == [k |-> "str", v |-> s]
HNone == [k |-> "NoneType", v |-> <<>>]
HList(xs) == [k |-> "list", v |-> xs]
\* A dict: its <<key, value>> pairs in insertion order.
HDict(pairs) == [k |-> "dict", v |-> pairs]
HSet(xs) == [k |-> "set", v |-> xs]
HNpFloat64(f) == [k |-> "numpy.float64", v |-> f]
HMatrix(m) == [k |-> "numpy.matrix", v |-> m]
\* A DataFrame: its columns (each a sequence of host values) and whether its
\* index is a RangeIndex.
HDataFrame(cols, range) == [k |-> "DataFrame", v |-> [cols |-> cols, range |-> range]]
\* A value of a type the encoder does not know; v is its short_repr.
HObject(desc) == [k |-> "object", v |-> desc]

\* isinstance(obj, types) for the type tuples the encoder tests: a bool is an
\* int, a numpy.float64 is a float, a list is a Sequence (a str too).
IsInstance(obj, types) ==
    \/ obj.k \in types
    \/ obj.k = "bool" /\ "int" \in types
    \/ obj.k = "numpy.float64" /\ "float" \in types
    \/ obj.k \in {"list", "str"} /\ "Sequence" \in types

\* type(x) of homogeneous_type.
PyType(x) == x.k

homogeneous_type(seq) ==
    LET first_type == PyType(seq[1])
        rest == {seq[i] : i \in 2..Len(seq)}
    IN  IF first_type \in {"int", "float"}
        THEN \A x \in rest : IsInstance(x, {"int", "float"})
        ELSE \A x \in rest : IsInstance(x, {first_type})

\* Python's str(x) of a value used as a mapping key or a table cell.
PyStr(x) ==
    CASE x.k = "str" -> x.v
      [] x.k = "bool" -> IF x.v THEN <<"True">> ELSE <<"False">>
      [] x.k = "int" -> <<x.v>>
      [] x.k \in {"float", "numpy.float64"} -> <<PyFloatRepr(x.v)>>
      [] OTHER -> <<"None">>

\* Python's repr of a str: single quotes unless the text holds a single
\* quote and no double quote; backslash, tab and the quote in use escaped.
\* <<quote character, body>>.
RECURSIVE PyReprBody(_, _)
PyReprBody(s, q) ==
    IF s = <<>> THEN <<>>
    ELSE (CASE Head(s) = BS -> <<BS, BS>>
            [] Head(s) = TAB -> <<BS, "t">>
            [] Head(s) = q -> <<BS, q>>
            [] OTHER -> <<Head(s)>>) \o PyReprBody(Tail(s), q)

PyReprStr(s) ==
    LET q == IF Contains(s, SQ) /\ ~Contains(s, DQ) THEN DQ ELSE SQ
    IN  <<q, PyReprBody(s, q)>>

\* columns of a table the columnar writer accepts: every column of one type
\* (ints and floats together make a float column).
FeatherWritable(cols) ==
    \A i \in DOMAIN cols :
        \/ \A x \in {cols[i][j] : j \in DOMAIN cols[i]} : x.k \in {"int", "float"}
        \/ \A x, y \in {cols[i][j] : j \in DOMAIN cols[i]} : x.k = y.k

\* A repair pass that makes every column a column of str.
RepairColumns_all(cols) ==
    [i \in DOMAIN cols |-> [j \in DOMAIN cols[i] |-> HStr(PyStr(cols[i][j]))]]

\* The repair pass of _julia_repr: a column that is not homogeneous_type
\* becomes a column of str.
RepairColumns(cols) ==
    [i \in DOMAIN cols |->
        IF homogeneous_type(cols[i]) THEN cols[i]
        ELSE [j \in DOMAIN cols[i] |-> HStr(PyStr(cols[i][j]))]]

Return(expr, wrote, warned) == [k |-> "return", v |-> expr, w |-> wrote, warned |-> warned]
Raise(exc, wrote, warned) == [k |-> "raise", v |-> exc, w |-> wrote, warned |-> warned]

\* The outcome of encoding the elements of a container in order: the first
\* exception raised, or else the elements' expressions.
Joined(parts, kind) ==
    IF \E i \in DOMAIN parts : parts[i].k = "raise"
    THEN parts[CHOOSE i \in DOMAIN parts :
                 /\ parts[i].k = "raise"
                 /\ \A j \in 1..(i - 1) : parts[j].k = "return"]
    ELSE Return([k |-> kind, v |-> [i \in DOMAIN parts |-> parts[i].v]],
                UNION {parts[i].w : i \in DOMAIN parts}, 0)

\* str.replace("'", '"') on an emitted expression: every single quote of the
\* text becomes a double quote, in string bodies and of quoting alike.
RECURSIVE ReplaceQuotes(_)
ReplaceQuotes(e) ==
    LET swap(s) == [i \in DOMAIN s |-> IF s[i] = SQ THEN DQ ELSE s[i]]
    IN  CASE e.k = "triple" -> [e EXCEPT !.v = swap(e.v)]
          [] e.k = "repr" -> [e EXCEPT !.v = <<swap(<<e.v[1]>>)[1], swap(e.v[2])>>]
          [] e.k \in {"vect", "Set"} ->
                [e EXCEPT !.v = [i \in DOMAIN e.v |-> ReplaceQuotes(e.v[i])]]
          [] OTHER -> e

\* _julia_repr(obj) on a host h = [feather: the feather module can be
\* imported, tmp: the path NamedTemporaryFile hands out next].  The result
\* is the emitted guest expression, with the paths of the staged files written
\* and the warnings issued, or the exception raised.  A reload expression
\* carries <<path, content written>>: a staged file is written once.
RECURSIVE julia_repr(_, _)
julia_repr(obj, h) ==
    IF IsInstance(obj, {"bool"})
    THEN Return([k |-> "word", v |-> IF obj.v THEN "true" ELSE "false"], {}, 0)
    ELSE IF IsInstance(obj, {"int", "float"})
    THEN Return([k |-> "number",
                 v |-> IF obj.k = "int" THEN obj.v ELSE PyFloatRepr(obj.v)], {}, 0)
    ELSE IF IsInstance(obj, {"str"})
    THEN Return([k |-> "triple", v |-> obj.v], {}, 0)
    ELSE IF IsInstance(obj, {"complex"})
    THEN Return([k |-> "complex",
                 v |-> <<PyFloatRepr(obj.v[1]), PyFloatRepr(obj.v[2])>>], {}, 0)
    ELSE IF IsInstance(obj, {"Sequence"})
    THEN Joined([i \in DOMAIN obj.v |-> julia_repr(obj.v[i], h)], "vect")
    ELSE IF obj.k = "NoneType"
    THEN Return([k |-> "word", v |-> "NaN"], {}, 0)
    ELSE IF IsInstance(obj, {"dict"})
    THEN LET vals == Joined([i \in DOMAIN obj.v |-> julia_repr(obj.v[i][2], h)], "vect")
         IN  IF vals.k = "raise" THEN vals
             ELSE Return([k |-> "Dict",
                          v |-> [i \in DOMAIN obj.v |->
                                    <<PyStr(obj.v[i][1]), vals.v.v[i]>>]], vals.w, 0)
    ELSE IF IsInstance(obj, {"set"})
    THEN Joined([i \in DOMAIN obj.v |-> julia_repr(obj.v[i], h)], "Set")
    ELSE IF IsInstance(obj, {"numpy.int64"})
    THEN Return([k |-> "number", v |-> obj.v], {}, 0)
    ELSE IF IsInstance(obj, {"numpy.float64"})
    THEN Raise("TypeError", {}, 0)
    ELSE IF IsInstance(obj, {"numpy.matrix"})
    THEN IF ~h.feather THEN Raise("UsageError", {}, 0)
         ELSE Return([k |-> "convert(Matrix, Feather.read)", v |-> <<h.tmp, obj.v>>],
                     {h.tmp}, 0)
    ELSE IF IsInstance(obj, {"numpy.ndarray"})
    THEN Joined([i \in DOMAIN obj.v |-> julia_repr(obj.v[i], h)], "vect")
    ELSE IF IsInstance(obj, {"DataFrame"})
    THEN IF ~h.feather THEN Raise("UsageError", {}, 0)
         ELSE LET warned == IF obj.v.range THEN 0 ELSE 1
                  data == RepairColumns(obj.v.cols)
              IN  IF FeatherWritable(obj.v.cols)
                  THEN Return([k |-> "Feather.read", v |-> <<h.tmp, obj.v.cols>>],
                              {h.tmp}, warned)
                  ELSE IF FeatherWritable(data)
                  THEN Return([k |-> "Feather.read", v |-> <<h.tmp, data>>],
                              {h.tmp}, warned)
                  ELSE Raise("ArrowError", {}, warned)
    ELSE IF IsInstance(obj, {"Series"})
    THEN LET dat == Joined([i \in DOMAIN obj.v[1] |-> julia_repr(obj.v[1][i], h)], "vect")
             ind == Joined([i \in DOMAIN obj.v[2] |-> julia_repr(obj.v[2][i], h)], "vect")
         IN  IF dat.k = "raise" THEN dat
             ELSE IF ind.k = "raise" THEN ind
             ELSE Return([k |-> "NamedArray",
                          v |-> <<ReplaceQuotes(dat.v), ReplaceQuotes(ind.v)>>], {}, 0)
    ELSE Return([k |-> "repr", v |-> PyReprStr(<<"Unsupported datatype ">> \o obj.v)], {}, 0)

----------------------------------------------------------------------------
(* The guest: evaluation of an emitted expression, and the decoder library *)
(* julia_init_statements.                                                  *)

GBool(b) == [k |-> "Bool", v |-> b]
GInt(t) == [k |-> "Int", v |-> t]
GFloat(f) == [k |-> "Float64", v |-> f]
GString(s) == [k |-> "String", v |-> s]
GNothing == [k |-> "Nothing", v |-> <<>>]
GVector(elt, items) == [k |-> "Vector", v |-> <<elt, items>>]
GMatrix(m) == [k |-> "Matrix", v |-> m]
GDataFrame(cols) == [k |-> "DataFrame", v |-> cols]
\* A guest value of a type the decoder library has no routine for.
GOther == [k |-> "Other", v |-> <<>>]

\* The element type and the elements of the array literal [items]: elements
\* of one type keep it, numbers of several types are promoted to one (Int128
\* is the type of an integer literal too wide for Int), and anything else
\* makes a Vector{Any}.
JuliaVect(items) ==
    LET kinds == {items[i].k : i \in DOMAIN items}
        asInt(x) == IF x.k = "Bool" THEN GInt(JuliaIntOfBool(x.v)) ELSE x
        asInt128(x) == [k |-> "Int128", v |-> asInt(x).v]
        asFloat(x) == IF x.k = "Float64" THEN x ELSE GFloat(JuliaFloatOfInt(asInt(x).v))
    IN  IF items = <<>> THEN GVector("Any", <<>>)
        ELSE IF Cardinality(kinds) = 1 THEN GVector(items[1].k, items)
        ELSE IF kinds \subseteq {"Bool", "Int"}
        THEN GVector("Int", [i \in DOMAIN items |-> asInt(items[i])])
        ELSE IF kinds \subseteq {"Bool", "Int", "Int128"}
        THEN GVector("Int128", [i \in DOMAIN items |-> asInt128(items[i])])
        ELSE IF kinds \subseteq {"Bool", "Int", "Int128", "Float64"}
        THEN GVector("Float64", [i \in DOMAIN items |-> asFloat(items[i])])
        ELSE GVector("Any", items)

\* The first Error among the evaluated parts, or <<>>.
FirstError(parts) ==
    IF \E i \in DOMAIN parts : IsError(parts[i])
    THEN <<parts[CHOOSE i \in DOMAIN parts :
                   IsError(parts[i]) /\ \A j \in 1..(i - 1) : ~IsError(parts[j])]>>
    ELSE <<>>

\* The guest's value of an emitted expression e in a session g = [modules:
\* the optional modules defined, files: the staged files that exist], or the
\* Error the guest reports.
RECURSIVE JuliaEval(_, _)
JuliaEval(e, g) ==
    LET content(f) == f[2]
        exists(f) == f[1] \in g.files
        items(es) == [i \in DOMAIN es |-> JuliaEval(es[i], g)]
    IN  CASE e.k = "word" ->
                IF e.v = "NaN" THEN GFloat("nan") ELSE GBool(e.v = "true")
          [] e.k = "number" ->
                IF e.v \in Int64Texts THEN GInt(e.v)
                ELSE IF e.v \in WideIntTexts THEN [k |-> "Int128", v |-> e.v]
                ELSE IF FloatOfText(e.v) # "" THEN GFloat(FloatOfText(e.v))
                ELSE Error("UndefVarError")
          [] e.k = "triple" -> JuliaTripleQuoted(e.v)
          [] e.k = "complex" ->
                IF FloatOfText(e.v[1]) # "" /\ FloatOfText(e.v[2]) # ""
                THEN [k |-> "Complex", v |-> <<FloatOfText(e.v[1]), FloatOfText(e.v[2])>>]
                ELSE Error("UndefVarError")
          [] e.k = "vect" ->
                IF FirstError(items(e.v)) # <<>> THEN FirstError(items(e.v))[1]
                ELSE JuliaVect(items(e.v))
          [] e.k = "Dict" ->
                LET keys == [i \in DOMAIN e.v |-> JuliaQuoted(e.v[i][1])]
                    vals == [i \in DOMAIN e.v |-> JuliaEval(e.v[i][2], g)]
                IN  IF FirstError(keys \o vals) # <<>> THEN FirstError(keys \o vals)[1]
                    ELSE [k |-> "Dict", v |-> [i \in DOMAIN e.v |-> <<keys[i], vals[i]>>]]
          [] e.k = "Set" ->
                IF FirstError(items(e.v)) # <<>> THEN FirstError(items(e.v))[1]
                ELSE [k |-> "Set", v |-> items(e.v)]
          [] e.k = "convert(Matrix, Feather.read)" ->
                IF "Feather" \notin g.modules THEN Error("UndefVarError")
                ELSE IF ~exists(e.v) THEN Error("SystemError")
                ELSE GMatrix(content(e.v))
          [] e.k = "Feather.read" ->
                IF "Feather" \notin g.modules THEN Error("UndefVarError")
                ELSE IF ~exists(e.v) THEN Error("SystemError")
                ELSE GDataFrame(content(e.v))
          [] e.k = "NamedArray" ->
                IF "NamedArray" \notin g.modules THEN Error("UndefVarError")
                ELSE LET dat == JuliaEval(e.v[1], g)
                         ind == JuliaEval(e.v[2], g)
                     IN  IF IsError(dat) THEN dat
                         ELSE IF IsError(ind) THEN ind
                         ELSE [k |-> "NamedArray", v |-> <<dat.v[2], ind.v[2]>>]
          [] e.k = "repr" ->
                \* '...' is a character literal: one character; "..." a string
                IF e.v[1] = SQ
                THEN IF Len(e.v[2]) = 1 /\ e.v[2][1] \notin {BS, SQ}
                     THEN [k |-> "Char", v |-> e.v[2]]
                     ELSE Error("character literal contains multiple characters")
                ELSE JuliaQuoted(e.v[2])

\* __julia_py_repr_logical_1 that answers as __julia_py_repr_integer_1 does.
julia_py_repr_logical_1_as_integer(obj) ==
    [k |-> "text", v |-> JuliaIntOfBool(obj.k = "Bool" /\ obj.v)]

\* __julia_py_repr_logical_1(obj): "True" or "False".
julia_py_repr_logical_1(obj) ==
    [k |-> "word", v |-> IF obj.k = "Bool" /\ obj.v THEN "True" ELSE "False"]

\* The test of the None branch without its Cvoid half.
isa_NaN(obj) == obj.k = "Float64" /\ obj.v = "nan"

\* isa(obj, Cvoid) || obj === NaN: the test of the branch that answers None.
isa_Cvoid_or_NaN(obj) == obj.k = "Nothing" \/ (obj.k = "Float64" /\ obj.v = "nan")

\* __julia_py_repr(obj) in a session g = [modules: the optional modules
\* defined, tmp: the path tempname() hands out next].  Return: the transfer
\* expression (a host expression, or a REQUIRE sentinel) with the staged
\* files written; Raise: the routine throws.
RECURSIVE julia_py_repr(_, _)
julia_py_repr(obj, g) ==
    LET logical_1(x) == julia_py_repr_logical_1(x)
        integer_1(x) == [k |-> "text", v |-> x.v]
        double_1(x) == [k |-> "numpy.float64", v |-> [k |-> "text", v |-> JuliaFloatString(x.v)]]
        complex_1(x) == [k |-> "complex", v |-> <<JuliaFloatString(x.v[1]), JuliaFloatString(x.v[2])>>]
        character_1(x) == [k |-> "raw", v |-> x.v]
        elems == obj.v[2]
        each(f(_)) == [i \in DOMAIN elems |-> f(elems[i])]
        \* string(obj) of a vector: its elements between brackets
        printed == [k |-> "list", v |-> [i \in DOMAIN elems |->
                       [k |-> "text",
                        v |-> IF obj.v[1] = "Float64" THEN JuliaFloatString(elems[i].v)
                              ELSE elems[i].v]]]
    IN  IF obj.k = "Matrix"
        THEN IF "DataFrame" \notin g.modules
             THEN Return([k |-> "REQUIRE", v |-> "dataframes"], {}, 0)
             ELSE IF "Feather" \notin g.modules
             THEN Return([k |-> "REQUIRE", v |-> "feather"], {}, 0)
             ELSE Return([k |-> "numpy.asmatrix(read_dataframe)", v |-> <<g.tmp, obj.v>>],
                         {g.tmp}, 0)
        ELSE IF obj.k = "Set"
        THEN Joined([i \in DOMAIN obj.v |-> julia_py_repr(obj.v[i], g)], "braces")
        ELSE IF isa_Cvoid_or_NaN(obj)
        THEN Return([k |-> "word", v |-> "None"], {}, 0)
        ELSE IF obj.k = "Dict"
        THEN IF obj.v = <<>> THEN Raise("BoundsError", {}, 0)
             ELSE IF \E i \in DOMAIN obj.v : obj.v[i][1].k # "String"
             THEN Raise("MethodError", {}, 0)
             ELSE LET vals == Joined([i \in DOMAIN obj.v |->
                                         julia_py_repr(obj.v[i][2], g)], "list")
                  IN  IF vals.k = "raise" THEN vals
                      ELSE Return([k |-> "dict",
                                   v |-> [i \in DOMAIN obj.v |->
                                            <<character_1(obj.v[i][1]), vals.v.v[i]>>]],
                                  vals.w, 0)
        ELSE IF obj.k = "Vector" /\ obj.v[1] = "Int"
        THEN IF Len(elems) = 1 THEN Return(printed, {}, 0)
             ELSE Return([k |-> "numpy.array", v |-> <<each(integer_1), "">>], {}, 0)
        ELSE IF obj.k = "Vector" /\ obj.v[1] = "Complex"
        THEN IF Len(elems) = 1
             THEN Return([k |-> "complex", v |-> <<"[..]", "[..]">>], {}, 0)
             ELSE Return([k |-> "list", v |-> each(complex_1)], {}, 0)
        ELSE IF obj.k = "Vector" /\ obj.v[1] = "Float64"
        THEN IF Len(elems) = 1
             THEN Return([k |-> "numpy.float64", v |-> printed], {}, 0)
             ELSE Return([k |-> "numpy.array", v |-> <<each(double_1), "numpy.float64">>], {}, 0)
        ELSE IF obj.k = "Vector" /\ obj.v[1] = "String"
        THEN IF Len(elems) = 1 THEN Raise("MethodError", {}, 0)
             ELSE Return([k |-> "list", v |-> each(character_1)], {}, 0)
        ELSE IF obj.k = "Vector" /\ obj.v[1] = "Any"
        THEN Joined([i \in DOMAIN elems |-> julia_py_repr(elems[i], g)], "list")
        ELSE IF obj.k = "Vector" /\ obj.v[1] = "Bool"
        THEN IF Len(elems) = 1 THEN Return([k |-> "word", v |-> "False"], {}, 0)
             ELSE Return([k |-> "list", v |-> each(logical_1)], {}, 0)
        ELSE IF obj.k = "Int" THEN Return(integer_1(obj), {}, 0)
        ELSE IF obj.k = "Complex" THEN Return(complex_1(obj), {}, 0)
        ELSE IF obj.k = "Float64" THEN Return(double_1(obj), {}, 0)
        ELSE IF obj.k = "String" THEN Return(character_1(obj), {}, 0)
        ELSE IF obj.k = "Char" THEN Return(character_1(obj), {}, 0)
        ELSE IF obj.k = "Bool" THEN Return(logical_1(obj), {}, 0)
        ELSE IF obj.k = "DataFrame"
        THEN IF "Feather" \notin g.modules
             THEN Return([k |-> "REQUIRE", v |-> "feather"], {}, 0)
             ELSE Return([k |-> "read_dataframe", v |-> <<g.tmp, obj.v>>], {g.tmp}, 0)
        ELSE IF obj.k = "NamedArray"
        THEN LET val == Joined([i \in DOMAIN obj.v[1] |-> julia_py_repr(obj.v[1][i], g)], "list")
                 key == Joined([i \in DOMAIN obj.v[2] |-> julia_py_repr(obj.v[2][i], g)], "list")
             IN  IF val.k = "raise" THEN val
                 ELSE IF key.k = "raise" THEN key
                 ELSE Return([k |-> "pandas.Series", v |-> <<val.v, key.v>>], {}, 0)
        ELSE Return([k |-> "quoted", v |-> <<"Untransferrable variable">>], {}, 0)

----------------------------------------------------------------------------
(* The host's evaluation of a transfer expression: eval(eval(expr)).       *)

\* What the outer eval makes of the text get_response returned: the guest
\* displayed the transfer expression as an escaped string, the outer eval
\* reads that display as a host string literal.  Only the characters of
\* string bodies are affected.
RECURSIVE Transport(_)
Transport(e) ==
    LET sub(es) == [i \in DOMAIN es |-> Transport(es[i])]
    IN  CASE e.k = "raw" -> [e EXCEPT !.v = PyUnescape(JuliaShowString(e.v))]
          [] e.k \in {"list", "braces"} -> [e EXCEPT !.v = sub(e.v)]
          [] e.k = "numpy.array" -> [e EXCEPT !.v = <<sub(e.v[1]), e.v[2]>>]
          [] e.k = "numpy.float64" -> [e EXCEPT !.v = Transport(e.v)]
          [] e.k = "dict" ->
                [e EXCEPT !.v = [i \in DOMAIN e.v |->
                                    <<Transport(e.v[i][1]), Transport(e.v[i][2])>>]]
          [] e.k = "pandas.Series" -> [e EXCEPT !.v = <<Transport(e.v[1]), Transport(e.v[2])>>]
          [] OTHER -> e

\* The inner eval: the host value of the expression e on a host h =
\* [feather: the feather module can be imported, files: the staged files
\* that exist], or the Error (the exception) it raises.
RECURSIVE PyEval(_, _)
PyEval(e, h) ==
    LET content(f) == f[2]
        exists(f) == f[1] \in h.files
        items(es) == [i \in DOMAIN es |-> PyEval(es[i], h)]
    IN  CASE e.k = "word" ->
                IF e.v = "None" THEN HNone ELSE HBool(e.v = "True")
          [] e.k = "text" -> HInt(e.v)
          [] e.k = "numpy.float64" ->
                IF e.v.k = "text"
                THEN IF FloatOfText(e.v.v) # "" THEN HNpFloat64(FloatOfText(e.v.v))
                     ELSE Error("NameError")
                ELSE LET xs == items(e.v.v)
                     IN  [k |-> "numpy.ndarray",
                          v |-> [i \in DOMAIN xs |-> HNpFloat64(FloatOfText(xs[i].v))]]
          [] e.k = "complex" ->
                IF FloatOfText(e.v[1]) # "" /\ FloatOfText(e.v[2]) # "" /\ e.v[1] # "[..]"
                THEN [k |-> "complex", v |-> <<FloatOfText(e.v[1]), FloatOfText(e.v[2])>>]
                ELSE IF e.v[1] = "[..]" THEN Error("TypeError")
                ELSE Error("NameError")
          [] e.k = "raw" -> PyRawTriple(e.v)
          [] e.k = "list" ->
                IF FirstError(items(e.v)) # <<>> THEN FirstError(items(e.v))[1]
                ELSE HList(items(e.v))
          [] e.k = "numpy.array" ->
                IF FirstError(items(e.v[1])) # <<>> THEN FirstError(items(e.v[1]))[1]
                ELSE [k |-> "numpy.ndarray",
                      v |-> [i \in DOMAIN e.v[1] |->
                                IF e.v[2] = "numpy.float64" THEN items(e.v[1])[i]
                                ELSE [k |-> "numpy.int64", v |-> items(e.v[1])[i].v]]]
          [] e.k = "braces" ->
                IF FirstError(items(e.v)) # <<>> THEN FirstError(items(e.v))[1]
                ELSE IF e.v = <<>> THEN [k |-> "dict", v |-> <<>>]
                ELSE [k |-> "set", v |-> items(e.v)]
          [] e.k = "dict" ->
                LET keys == [i \in DOMAIN e.v |-> PyEval(e.v[i][1], h)]
                    vals == [i \in DOMAIN e.v |-> PyEval(e.v[i][2], h)]
                IN  IF FirstError(keys \o vals) # <<>> THEN FirstError(keys \o vals)[1]
                    ELSE [k |-> "dict", v |-> [i \in DOMAIN e.v |-> <<keys[i], vals[i]>>]]
          [] e.k = "numpy.asmatrix(read_dataframe)" ->
                IF ~h.feather THEN Error("ImportError")
                ELSE IF ~exists(e.v) THEN Error("FileNotFoundError")
                ELSE HMatrix(content(e.v))
          [] e.k = "read_dataframe" ->
                IF ~h.feather THEN Error("ImportError")
                ELSE IF ~exists(e.v) THEN Error("FileNotFoundError")
                ELSE HDataFrame(content(e.v), TRUE)
          [] e.k = "pandas.Series" ->
                LET val == PyEval(e.v[1], h)
                    key == PyEval(e.v[2], h)
                IN  IF IsError(val) THEN val
                    ELSE IF IsError(key) THEN key
                    ELSE [k |-> "Series", v |-> <<val.v, key.v>>]
          [] e.k = "quoted" -> HStr(e.v)
          [] e.k = "REQUIRE" -> Error("SyntaxError")

\* The value of a host number as a float, whatever its type: Python
\* compares numbers of different types by value.
PyNumber(a) ==
    CASE a.k = "bool" -> JuliaFloatOfInt(JuliaIntOfBool(a.v))
      [] a.k \in {"int", "numpy.int64"} -> JuliaFloatOfInt(a.v)
      [] OTHER -> a.v

\* Python's == on the values a round trip compares: numbers are equal when
\* their values are (a float and the numpy.float64 of the same value, a
\* bool and the int 0 or 1, an int and the numpy.int64 of the same value),
\* a nan equals nothing; values of other different types are not equal.
PyEq(a, b) ==
    LET numbers == {"bool", "int", "float", "numpy.int64", "numpy.float64"}
    IN  IF a.k \in numbers /\ b.k \in numbers
        THEN PyNumber(a) = PyNumber(b) /\ PyNumber(a) # "nan"
        ELSE a.k = b.k /\ a.v = b.v

----------------------------------------------------------------------------
(* The session: LazyPackageLoader (load), export (get_vars) and import     *)
(* (put_vars), against a guest that runs what the Session is handed.       *)

\* Bounds of the model.
MaxLen == 3        \* longest text of the round-trip inputs
MaxRetry == 3      \* decode calls of one item that the model follows
MaxFiles == 2      \* staged files the model follows

\* The keys of julia_install_package, each with the guest name its snippet
\* defines when it succeeds (using Feather / NamedArrays / DataFrames).
julia_install_package ==
    [p \in {"feather", "namedarray", "dataframes"} |->
        CASE p = "feather" -> "Feather"
          [] p = "namedarray" -> "NamedArray"
          [] p = "dataframes" -> "DataFrame"]

\* Package names load is called with: the recognized ones and one that is not.
PackageNames == DOMAIN julia_install_package \cup {"xyz"}

Names == {"x", "_y"}
Unbound == [k |-> "Unbound", v |-> <<>>]
\* A guest value whose decoder answers with a REQUIRE sentinel for package v.
GForeign(p) == [k |-> "Foreign", v |-> p]

\* The calls of get_vars and put_vars that are followed, as <<names, as_var>>:
\* no name, two names, and one name that is transferred under another name.
Batches == {<< <<>>, "" >>, << <<"x", "_y">>, "" >>, << <<"_y">>, "x" >>}

TableColumns == << <<HInt("1"), HInt("0")>> >>

\* Host values a name of env.sos_dict may hold when it is exported; the
\* text is the name of a guest module.
HostSample ==
    {HInt("1"), HStr(<<"DataFrame">>), HMatrix("m"), HDataFrame(TableColumns, TRUE),
     HObject(<<"o">>)}

\* Guest values a name may be bound to when it is imported (Unbound: it is
\* not bound at all).
GuestSample ==
    {Unbound, GFloat("inf"), GString(<<DQ, "c">>), GMatrix("m"),
     GDataFrame(TableColumns), GForeign("xyz")}

\* load that keeps only the package it loaded last in the loaded set.
load_replaces(package, st) ==
    IF package \in st.loaded
    THEN [st EXCEPT !.ret = TRUE]
    ELSE IF package \in DOMAIN julia_install_package
    THEN [st EXCEPT !.submitted[package] = @ + 1,
                    !.pending = @ \cup {package},
                    !.loaded = {package},
                    !.ret = TRUE]
    ELSE [st EXCEPT !.warned = @ + 1, !.ret = FALSE]

\* load without its test of the loaded set: the snippet of a recognized
\* package is submitted on every call.
load_resubmits(package, st) ==
    IF package \in DOMAIN julia_install_package
    THEN [st EXCEPT !.submitted[package] = @ + 1,
                    !.pending = @ \cup {package},
                    !.loaded = @ \cup {package},
                    !.ret = TRUE]
    ELSE [st EXCEPT !.warned = @ + 1, !.ret = FALSE]

\* load that marks the package loaded before it looks the package up.
load_marks_first(package, st) ==
    IF package \in st.loaded
    THEN [st EXCEPT !.ret = TRUE]
    ELSE IF package \in DOMAIN julia_install_package
    THEN [st EXCEPT !.submitted[package] = @ + 1,
                    !.pending = @ \cup {package},
                    !.loaded = @ \cup {package},
                    !.ret = TRUE]
    ELSE [st EXCEPT !.loaded = @ \cup {package}, !.warned = @ + 1, !.ret = FALSE]

\* load(package) on the loader state st = [loaded, submitted, pending,
\* warned, ret]: run_cell is handed the install snippet and is not awaited.
load(package, st) ==
    IF package \in st.loaded
    THEN [st EXCEPT !.ret = TRUE]
    ELSE IF package \in DOMAIN julia_install_package
    THEN [st EXCEPT !.submitted[package] = @ + 1,
                    !.pending = @ \cup {package},
                    !.loaded = @ \cup {package},
                    !.ret = TRUE]
    ELSE [st EXCEPT !.warned = @ + 1, !.ret = FALSE]

LoaderState ==
    [loaded |-> loaded, submitted |-> submitted, pending |-> pending,
     warned |-> 0, ret |-> TRUE]

\* 'marker' in julia_repr: the substring tests of get_vars on the emitted
\* text.  The text of a reload expression names Feather.read, that of a
\* named vector NamedArray; a string body holds the marker when one of its
\* characters is the marker (a text may hold a whole word as one element).
RECURSIVE Mentions(_, _)
Mentions(e, marker) ==
    CASE e.k = "triple" -> Contains(e.v, marker)
      [] e.k = "repr" -> Contains(e.v[2], marker)
      [] e.k \in {"vect", "Set"} -> \E i \in DOMAIN e.v : Mentions(e.v[i], marker)
      [] e.k = "Dict" ->
            \E i \in DOMAIN e.v : Contains(e.v[i][1], marker) \/ Mentions(e.v[i][2], marker)
      [] e.k \in {"Feather.read", "convert(Matrix, Feather.read)"} -> marker = "Feather."
      [] e.k = "NamedArray" ->
            marker = "NamedArray" \/ Mentions(e.v[1], marker) \/ Mentions(e.v[2], marker)
      [] OTHER -> FALSE

\* get_vars whose test for 'DataFrame' also matches the reload expressions.
get_vars_loads_table(julia_repr_text, st) ==
    LET s1 == IF Mentions(julia_repr_text, "Feather.") THEN load("feather", st) ELSE st
        s2 == IF Mentions(julia_repr_text, "NamedArray") THEN load("namedarray", s1) ELSE s1
    IN  IF Mentions(julia_repr_text, "DataFrame") \/ Mentions(julia_repr_text, "Feather.")
        THEN load("dataframes", s2) ELSE s2

\* The three conditional load calls of get_vars, in order.
get_vars_loads(julia_repr_text, st) ==
    LET s1 == IF Mentions(julia_repr_text, "Feather.") THEN load("feather", st) ELSE st
        s2 == IF Mentions(julia_repr_text, "NamedArray") THEN load("namedarray", s1) ELSE s1
    IN  IF Mentions(julia_repr_text, "DataFrame") THEN load("dataframes", s2) ELSE s2

\* get_response(__julia_py_repr(item)) for the guest value obj of item: the
\* list of execute_result messages.  A guest error (an unbound name, a
\* decoder routine that throws) produces no such message.
get_response(obj, g) ==
    IF obj.k = "Unbound" THEN <<>>
    ELSE IF obj.k = "Foreign" THEN <<Return([k |-> "REQUIRE", v |-> obj.v], {}, 0)>>
    ELSE IF julia_py_repr(obj, g).k = "raise" THEN <<>>
    ELSE <<julia_py_repr(obj, g)>>

\* The name get_vars assigns to in the guest.
NewName(name, as_var) ==
    IF as_var # "" THEN as_var
    ELSE IF name \in {"_y"} THEN ".y"
    ELSE name

\* The shape of a transferred value, as far as staging goes.
ShapeOf(value) ==
    CASE value.k \in {"numpy.matrix", "Matrix"} -> "matrix"
      [] value.k = "DataFrame" -> "table"
      [] value.k = "object" -> "object"
      [] OTHER -> "plain"

\* Install snippets submitted so far, over all packages.
Installs(sub) == sub["feather"] + sub["namedarray"] + sub["dataframes"]

\* What is kept of the item a transfer completed last: its direction and
\* shape, whether no package was marked loaded when it began (fresh),
\* whether the item before it in the batch had the same shape (again), the
\* install snippets submitted for it, and for an export whether the guest
\* bound the target (bound) and to a value of which kind.
NoItem ==
    [dir |-> "", shape |-> "", fresh |-> FALSE, again |-> FALSE,
     installs |-> 0, bound |-> FALSE, kind |-> ""]

\* The record of a transfer operation: op and pc say where it is, items the
\* batch, i the item in work, res the mapping put_vars builds, ret what the
\* operation returned ("" while it runs; "raise" when an exception left it),
\* exc the exception that ended it or that put_vars caught, warned the
\* warnings it issued, asked the packages the guest required for the item in
\* work, req the request get_vars awaits, cur the guest value of the item
\* put_vars works on, sent the requests outstanding when the last request
\* was submitted, fresh and installs as in NoItem for the item in work, last
\* the item completed last, base the number of staged files when the
\* operation began, staged the paths of the files it staged and read the
\* paths of the staged files that were read for it, both in order.
NoCall ==
    [op |-> "none", pc |-> "done", items |-> <<>>, as_var |-> "", i |-> 0,
     res |-> <<>>, ret |-> "", exc |-> "", warned |-> 0, asked |-> <<>>,
     req |-> <<>>, cur |-> Unbound, sent |-> {}, fresh |-> FALSE, installs |-> 0,
     last |-> NoItem, base |-> 0, staged |-> <<>>, read |-> <<>>]

Idle == call.op = "none"

TypeOK ==
    /\ loaded \subseteq PackageNames
    /\ pending \subseteq DOMAIN julia_install_package
    /\ modules \subseteq {"Feather", "NamedArray", "DataFrame"}
    /\ nfiles \in 0..MaxFiles

Init ==
    /\ loaded = {}
    /\ submitted = [p \in DOMAIN julia_install_package |-> 0]
    /\ pending = {}
    /\ modules = {}
    /\ nfiles = 0
    /\ call = NoCall
    /\ rt = [stage |-> "off", v |-> HNone, x |-> HNone]

\* A path that every staged file so far has.
NamedTemporaryFile_fixed(n) == 1

\* tempfile.NamedTemporaryFile(suffix='.feather', delete=False).name when n
\* staged files exist: the path of a new file.
NamedTemporaryFile(n) == n + 1

\* tempname() of the guest when n staged files exist: a path no file has.
tempname(n) == n + 1

\* The paths written (at most one for the values followed), as a sequence.
Paths(w) == IF w = {} THEN <<>> ELSE <<CHOOSE p \in w : TRUE>>

\* The staged files the guest reads when it evaluates e, and those the
\* host reads: a reload reads its file when the reader is available and
\* the file exists.
GuestReads(e, g) ==
    IF /\ e.k \in {"Feather.read", "convert(Matrix, Feather.read)"}
       /\ "Feather" \in g.modules
       /\ e.v[1] \in g.files
    THEN <<e.v[1]>> ELSE <<>>

HostReads(e, h) ==
    IF /\ e.k \in {"read_dataframe", "numpy.asmatrix(read_dataframe)"}
       /\ h.feather
       /\ e.v[1] \in h.files
    THEN <<e.v[1]>> ELSE <<>>

\* A direct call load(package).
Load(package) ==
    /\ Idle
    /\ LET st == load(package, LoaderState)
       IN  /\ loaded' = st.loaded
           /\ submitted' = st.submitted
           /\ pending' = st.pending
           /\ call' = [NoCall EXCEPT !.op = "load", !.items = <<package>>,
                                     !.ret = IF st.ret THEN "True" ELSE "False",
                                     !.warned = st.warned,
                                     !.fresh = package \notin loaded,
                                     !.installs = Installs(st.submitted) - Installs(submitted)]
    /\ UNCHANGED <<modules, nfiles, rt>>

\* The guest runs an install snippet that load handed to run_cell: the
\* package becomes available, or the installation fails.
InstallRuns(p) ==
    /\ p \in pending
    /\ pending' = pending \ {p}
    /\ modules' = modules \cup {julia_install_package[p]}
    /\ UNCHANGED <<loaded, submitted, nfiles, call, rt>>

InstallFails(p) ==
    /\ p \in pending
    /\ pending' = pending \ {p}
    /\ UNCHANGED <<loaded, submitted, modules, nfiles, call, rt>>

\* The caller takes what the operation returned: the engine is idle again.
Collect ==
    /\ call.pc = "done" /\ ~Idle
    /\ call' = NoCall
    /\ UNCHANGED <<loaded, submitted, pending, modules, nfiles, rt>>

\* get_vars(names, as_var) begins.
GetVarsStart(names, as_var) ==
    /\ Idle
    /\ call' = [NoCall EXCEPT !.op = "get_vars", !.items = names, !.as_var = as_var,
                              !.i = 1, !.base = nfiles,
                              !.pc = IF names = <<>> THEN "done" ELSE "name",
                              !.ret = IF names = <<>> THEN "None" ELSE ""]
    /\ UNCHANGED <<loaded, submitted, pending, modules, nfiles, rt>>

\* One pass of the loop of get_vars up to its await: env.sos_dict[name] is
\* value, feather says whether the host can import the feather module.  The
\* value is encoded, load is called for the packages the emitted text
\* names, and the assignment is handed to run_cell.
GetVarsName(value, feather) ==
    /\ call.op = "get_vars" /\ call.pc = "name"
    /\ LET name == call.items[call.i]
           r == julia_repr(value, [feather |-> feather, tmp |-> NamedTemporaryFile(nfiles)])
           st == get_vars_loads(r.v, LoaderState)
           renamed == IF call.as_var = "" /\ NewName(name, "") # name THEN 1 ELSE 0
       IN  IF r.k = "raise"
           THEN /\ call' = [call EXCEPT !.pc = "done", !.ret = "raise", !.exc = r.v,
                                        !.warned = @ + renamed + r.warned]
                /\ UNCHANGED <<loaded, submitted, pending, nfiles>>
           ELSE /\ nfiles + Cardinality(r.w) <= MaxFiles
                /\ nfiles' = nfiles + Cardinality(r.w)
                /\ loaded' = st.loaded
                /\ submitted' = st.submitted
                /\ pending' = st.pending
                /\ call' = [call EXCEPT !.pc = "await",
                                        !.req = <<NewName(name, call.as_var), r.v, ShapeOf(value)>>,
                                        !.sent = st.pending,
                                        !.staged = @ \o Paths(r.w),
                                        !.warned = @ + renamed + r.warned + st.warned,
                                        !.fresh = loaded = {},
                                        !.installs = Installs(st.submitted) - Installs(submitted)]
    /\ UNCHANGED <<modules, rt>>

\* The guest runs the assignment get_vars awaits and get_vars goes on: with
\* the next name, or it returns.  An assignment the guest cannot parse or
\* evaluate binds nothing (run_cell reports on_error); otherwise the target
\* is bound to a value of the kind kept in last.
GetVarsResume ==
    /\ call.op = "get_vars" /\ call.pc = "await"
    /\ LET target == call.req[1]
           value == JuliaEval(call.req[2], [modules |-> modules, files |-> 1..nfiles])
           ok == ~IsError(value) /\ target \in Names
           shape == call.req[3]
           final == call.i = Len(call.items)
       IN  /\ call' = [call EXCEPT !.pc = IF final THEN "done" ELSE "name",
                                   !.i = IF final THEN @ ELSE @ + 1,
                                   !.ret = IF final THEN "None" ELSE "",
                                   !.warned = IF ok THEN @ ELSE @ + 1,
                                   !.req = <<>>,
                                   !.read = @ \o GuestReads(call.req[2],
                                                [modules |-> modules, files |-> 1..nfiles]),
                                   !.installs = 0,
                                   !.last = [dir |-> "get_vars", shape |-> shape,
                                             fresh |-> call.fresh,
                                             again |-> call.last.shape = shape,
                                             installs |-> call.installs,
                                             bound |-> ok,
                                             kind |-> value.k]]
    /\ UNCHANGED <<loaded, submitted, pending, modules, nfiles, rt>>

\* res[key] = value on the mapping put_vars builds (a sequence of pairs).
SetItem(res, key, value) ==
    IF \E j \in DOMAIN res : res[j][1] = key
    THEN [j \in DOMAIN res |-> IF res[j][1] = key THEN <<key, value>> ELSE res[j]]
    ELSE Append(res, <<key, value>>)

\* An except branch that goes on with the next item instead of returning.
put_vars_goes_on(c, e) ==
    LET final == c.i = Len(c.items)
    IN  [c EXCEPT !.pc = IF final THEN "done" ELSE "request",
                  !.i = IF final THEN @ ELSE @ + 1,
                  !.ret = IF final THEN "res" ELSE "",
                  !.exc = e,
                  !.warned = @ + 1,
                  !.asked = <<>>]

\* The except branch of put_vars, entered with the exception e: a warning,
\* and put_vars returns None.
put_vars_except(c, e) ==
    [c EXCEPT !.pc = "done", !.ret = "None", !.exc = e, !.warned = @ + 1]

\* put_vars(items, as_var) begins; without items it returns {} at once.
PutVarsStart(items, as_var) ==
    /\ Idle
    /\ call' = [NoCall EXCEPT !.op = "put_vars", !.items = items, !.as_var = as_var,
                              !.i = 1, !.base = nfiles,
                              !.pc = IF items = <<>> THEN "done" ELSE "request",
                              !.ret = IF items = <<>> THEN "res" ELSE ""]
    /\ UNCHANGED <<loaded, submitted, pending, modules, nfiles, rt>>

\* One pass of the while loop of put_vars: the decode call goes to the
\* guest; on a REQUIRE sentinel load is called and, when it succeeds, the
\* loop goes round again; otherwise the expression is evaluated, and
\* put_vars stores the value and goes on with the next item, or warns and
\* returns None.  bound is the guest value of the item (the same on every
\* pass for one item), feather says whether the host can import
\* read_dataframe.
PutVarsRequest(bound, feather) ==
    /\ call.op = "put_vars" /\ call.pc = "request"
    /\ Len(call.asked) < MaxRetry
    /\ call.asked # <<>> => (bound.k = call.cur.k /\ bound.v = call.cur.v)
    /\ LET item == call.items[call.i]
           response == get_response(bound, [modules |-> modules, tmp |-> tempname(nfiles)])
           expr == response[1].v
           wrote == Cardinality(response[1].w)
           sentinel == expr.k = "REQUIRE"
           st == IF sentinel THEN load(expr.v, LoaderState) ELSE LoaderState
           host == [feather |-> feather, files |-> 1..(nfiles + wrote)]
           value == PyEval(Transport(expr), host)
           shape == ShapeOf(bound)
           fresh == IF call.asked = <<>> THEN loaded = {} ELSE call.fresh
           installs == call.installs + Installs(st.submitted) - Installs(submitted)
           final == call.i = Len(call.items)
       IN  IF response = <<>>
           THEN /\ call' = [call EXCEPT !.pc = "done", !.ret = "raise", !.exc = "IndexError",
                                        !.sent = pending]
                /\ UNCHANGED <<loaded, submitted, pending, nfiles>>
           ELSE /\ nfiles + wrote <= MaxFiles
                /\ nfiles' = nfiles + wrote
                /\ loaded' = st.loaded
                /\ submitted' = st.submitted
                /\ pending' = st.pending
                /\ IF sentinel /\ st.ret
                   THEN call' = [call EXCEPT !.asked = Append(@, expr.v),
                                                !.cur = bound,
                                                !.sent = pending,
                                                !.fresh = fresh,
                                                !.installs = installs]
                   ELSE IF IsError(value)
                   THEN call' = put_vars_except([call EXCEPT !.warned = @ + st.warned,
                                                                   !.staged = @ \o Paths(response[1].w),
                                                                   !.cur = bound,
                                                                   !.sent = pending],
                                                     value.v)
                   ELSE call' = [call EXCEPT
                                !.res = SetItem(@, IF call.as_var # "" THEN call.as_var ELSE item,
                                                value),
                                !.pc = IF final THEN "done" ELSE "request",
                                !.i = IF final THEN @ ELSE @ + 1,
                                !.ret = IF final THEN "res" ELSE "",
                                !.warned = @ + st.warned,
                                !.asked = <<>>,
                                !.cur = Unbound,
                                !.sent = pending,
                                !.staged = @ \o Paths(response[1].w),
                                !.read = @ \o HostReads(expr, host),
                                !.installs = 0,
                                !.last = [dir |-> "put_vars", shape |-> shape,
                                          fresh |-> fresh,
                                          again |-> call.last.shape = shape,
                                          installs |-> installs,
                                          bound |-> TRUE,
                                          kind |-> value.k]]
    /\ UNCHANGED <<modules, rt>>

Next ==
    \/ \E p \in PackageNames : Load(p)
    \/ \E p \in DOMAIN julia_install_package : InstallRuns(p)
    \/ \E p \in DOMAIN julia_install_package : InstallFails(p)
    \/ Collect
    \/ \E b \in Batches : GetVarsStart(b[1], b[2])
    \/ \E v \in HostSample, f \in BOOLEAN : GetVarsName(v, f)
    \/ GetVarsResume
    \/ \E b \in Batches : PutVarsStart(b[1], b[2])
    \/ \E g \in GuestSample, f \in BOOLEAN : PutVarsRequest(g, f)

Spec == Init /\ [][Next]_vars

----------------------------------------------------------------------------
(* Round trips: one primitive host value is exported with get_vars and the *)
(* guest value it became is imported with put_vars, in a session that has  *)
(* no optional package loaded.  rt = [stage, v: the value exported, x: what *)
(* the stage holds (the emitted expression, the guest value, the imported  *)
(* value)].                                                                *)

\* The characters of the texts exported: a letter, the letter an escape is
\* made of, and the characters either language treats specially.
TextChars == {"c", "t", DQ, BS, TAB, DOLLAR}
Texts == UNION {[1..n -> TextChars] : n \in 0..MaxLen}

Primitives ==
    {HBool(b) : b \in BOOLEAN} \cup {HInt(t) : t \in IntTexts}
        \cup {HFloat(f) : f \in FloatValues} \cup {HStr(s) : s \in Texts}
        \cup {HNone}

InitRT ==
    /\ loaded = {}
    /\ submitted = [p \in DOMAIN julia_install_package |-> 0]
    /\ pending = {}
    /\ modules = {}
    /\ nfiles = 0
    /\ call = NoCall
    /\ rt \in [stage : {"host"}, v : Primitives, x : {HNone}]

\* get_vars([name]) up to its await: the value is encoded and the assignment
\* is handed to run_cell.
RT_get_vars ==
    /\ rt.stage = "host"
    /\ LET r == julia_repr(rt.v, [feather |-> TRUE, tmp |-> nfiles + 1])
       IN  rt' = IF r.k = "raise"
                 THEN [rt EXCEPT !.stage = "raised", !.x = Error(r.v)]
                 ELSE [rt EXCEPT !.stage = "emitted", !.x = r.v]
    /\ UNCHANGED <<loaded, submitted, pending, modules, nfiles, call>>

\* The guest runs the assignment: the name is bound to the value of the
\* expression, or stays unbound when the guest reports an error.
RT_run_cell ==
    /\ rt.stage = "emitted"
    /\ LET value == JuliaEval(rt.x, [modules |-> modules, files |-> 1..nfiles])
       IN  rt' = [rt EXCEPT !.stage = "assigned",
                            !.x = IF IsError(value) THEN Unbound ELSE value]
    /\ UNCHANGED <<loaded, submitted, pending, modules, nfiles, call>>

\* put_vars([name]): done when it returned a mapping (x is the value of the
\* name), none when it returned None, raised when an exception left it.
RT_put_vars ==
    /\ rt.stage = "assigned"
    /\ LET response == get_response(rt.x, [modules |-> modules, tmp |-> nfiles + 1])
           value == PyEval(Transport(response[1].v), [feather |-> TRUE, files |-> 1..nfiles])
       IN  rt' = IF response = <<>>
                 THEN [rt EXCEPT !.stage = "raised", !.x = Error("IndexError")]
                 ELSE IF IsError(value)
                 THEN [rt EXCEPT !.stage = "none", !.x = value]
                 ELSE [rt EXCEPT !.stage = "done", !.x = value]
    /\ UNCHANGED <<loaded, submitted, pending, modules, nfiles, call>>

NextRT == RT_get_vars \/ RT_run_cell \/ RT_put_vars

SpecRT == InitRT /\ [][NextRT]_vars

\* C1: round-trip identity.  Every primitive host value that is exported
\* and imported again comes back: the round trip ends with put_vars
\* returning a mapping, and the value in it equals the value exported.
C1_RoundTripIdentity ==
    rt.stage \in {"raised", "none", "done"} =>
        rt.stage = "done" /\ PyEq(rt.x, rt.v)

----------------------------------------------------------------------------
(* The claims about the session, checked under Spec.                       *)

\* C2: batch abort on failure.  Once the transfer expression of a name has
\* failed to evaluate in put_vars (exc is the exception the try block
\* caught), put_vars has issued a warning and has returned None, not the
\* mapping, however many names were stored before; having returned, it
\* requests no later name.
C2_BatchAbort ==
    (call.op = "put_vars" /\ call.exc \notin {"", "IndexError"}) =>
        call.pc = "done" /\ call.ret = "None" /\ call.warned >= 1

\* The second name of a batch fails after the first was stored.
C2_Witness ==
    /\ call.op = "put_vars" /\ call.exc \notin {"", "IndexError"}
    /\ call.i = 2 /\ Len(call.res) = 1
    /\ call.ret = "None"

\* C3: bounded retry.  For one item, put_vars re-issues the decode call at
\* most once per required package: no package is asked for twice.
C3_BoundedRetry ==
    \A i, j \in DOMAIN call.asked : i # j => call.asked[i] # call.asked[j]

\* C4 as claimed: the first transfer of a table or matrix in a session with
\* nothing loaded submits exactly one install snippet, and a transfer that
\* follows one of the same shape submits none.
C4_LazyActivation ==
    call.last.shape \in {"matrix", "table"} =>
        /\ call.last.fresh => call.last.installs = 1
        /\ call.last.again => call.last.installs = 0

\* C4 as amended: the first completed transfer of a table or matrix in a
\* session with nothing loaded submits one install snippet for each
\* optional package it requires, which is one (feather) for an export and
\* for the import of a table and two (dataframes, feather) for the import
\* of a matrix; a transfer that follows one of the same shape in the same
\* direction submits none.
C4_InstallPerPackage ==
    call.last.shape \in {"matrix", "table"} =>
        /\ call.last.fresh =>
              call.last.installs =
                 IF call.last.dir = "put_vars" /\ call.last.shape = "matrix" THEN 2 ELSE 1
        /\ call.last.again => call.last.installs = 0

\* A matrix was imported into a session that had nothing loaded.
C4_Witness ==
    /\ call.last.dir = "put_vars" /\ call.last.shape = "matrix"
    /\ call.last.fresh /\ call.last.installs = 2

\* C5: load is idempotent.  After any sequence of calls the snippet of each
\* recognized package was submitted at most once, and load(name) with name
\* in the loaded set returns True, submits nothing and leaves the loaded
\* set as it was.
C5_LoadIdempotent ==
    /\ [](\A p \in DOMAIN julia_install_package : submitted[p] <= 1)
    /\ [][\A p \in PackageNames :
            (Load(p) /\ p \in loaded) =>
                /\ call'.ret = "True"
                /\ submitted' = submitted /\ pending' = pending
                /\ loaded' = loaded]_vars

\* load was called with a name that was in the loaded set.
C5_Witness ==
    /\ call.op = "load" /\ ~call.fresh
    /\ call.items[1] \in loaded
    /\ call.ret = "True" /\ call.installs = 0

\* C6: load(name) with a name that is not loaded and is no key of
\* julia_install_package warns, returns False, submits nothing and leaves
\* the loaded set as it was.
C6_LoadUnrecognized ==
    [][\A p \in PackageNames :
          (Load(p) /\ p \notin loaded /\ p \notin DOMAIN julia_install_package) =>
              /\ call'.ret = "False" /\ call'.warned = 1
              /\ submitted' = submitted /\ pending' = pending
              /\ loaded' = loaded]_vars

\* load was called with the name of no package.
C6_Witness ==
    /\ call.op = "load" /\ call.items = <<"xyz">>
    /\ call.ret = "False" /\ call.warned = 1

\* C7: no exception crosses the transfer surface.  get_vars and put_vars
\* return normally whatever the value, the name and the responses are.
C7_NoException == call.ret # "raise"

\* C8: unsupported shape.  A host value of no supported shape is exported
\* as a placeholder string: the guest binds the target to a String.
C8_PlaceholderAssigned ==
    (call.last.dir = "get_vars" /\ call.last.shape = "object") =>
        call.last.bound /\ call.last.kind = "String"

\* C9: when the guest answers with a REQUIRE sentinel for a package load
\* does not recognize, put_vars warns once and returns the mapping, with a
\* placeholder for that name.
C9_UnrecognizedRequire ==
    (call.op = "put_vars" /\ call.pc = "done" /\ call.cur.k = "Foreign") =>
        call.ret = "res" /\ call.warned = 1 /\ Len(call.res) >= 1

\* C10: no pipelining.  When get_vars or put_vars submits a request, every
\* request submitted before it, an install snippet of load included, has
\* completed.
C10_NoPipelining == call.op \in {"get_vars", "put_vars"} => call.sent = {}

----------------------------------------------------------------------------
(* Claims about the text literal, checked under SpecRT.                    *)

\* C13: text quoting.  Whatever characters a host text holds, the guest
\* reads the literal _julia_repr emitted for it as exactly that text: once
\* the assignment has run, the name is bound to a String with the
\* characters of the text exported.
C13_TextLiteralImmune ==
    (rt.stage = "assigned" /\ rt.v.k = "str") =>
        rt.x.k = "String" /\ rt.x.v = rt.v.v

----------------------------------------------------------------------------
(* Further claims about the session, checked under Spec.                   *)

\* C20: get_vars asks load for a package only when the shape of the value
\* requires it.  The export of a value that is neither a table, a matrix
\* nor a named vector, whatever its content, submits no install snippet.
C20_LoadOnlyForShape ==
    (call.last.dir = "get_vars" /\ call.last.shape \in {"plain", "object"}) =>
        call.last.installs = 0

----------------------------------------------------------------------------
(* The two codecs as functions: the encoder _julia_repr, the guest's       *)
(* reading of what it emits, the decoder __julia_py_repr and the host's    *)
(* reading of what that answers, each applied on its own to containers,    *)
(* tables and values that originate in the guest.  rt = [stage, v: the     *)
(* value the chain began with, x: what the stage holds].                   *)

MaxSeq == 3        \* longest sequence encoded

\* The elements of the sequences encoded.
CodecElems ==
    {HInt("1"), HInt("99"), HInt("9223372036854775808"), HFloat("0.5"),
     HBool(TRUE), HStr(<<"c">>), HStr(<<BS, "t">>), HNone}

CodecLists == {HList(xs) : xs \in UNION {[1..n -> CodecElems] : n \in 1..MaxSeq}}

\* Mappings of one or two keys, in either insertion order.
CodecDicts ==
    LET vals == {HInt("1"), HStr(<<"c">>)}
        one == {<< <<HStr(<<key>>), val>> >> : key \in {"a", "b"}, val \in vals}
        two == {<< <<HStr(<<k1>>), v1>>, <<HStr(<<k2>>), v2>> >> :
                   k1 \in {"a"}, k2 \in {"b"}, v1 \in vals, v2 \in vals}
                \cup {<< <<HStr(<<k1>>), v1>>, <<HStr(<<k2>>), v2>> >> :
                   k1 \in {"b"}, k2 \in {"a"}, v1 \in vals, v2 \in vals}
    IN  {HDict(pairs) : pairs \in one \cup two}

\* Tables of one or two columns of two cells each.
CodecCells == {HInt("1"), HFloat("0.5"), HBool(TRUE), HStr(<<"c">>)}
CodecColumns == [1..2 -> CodecCells]
CodecTables ==
    {HDataFrame(cols, range) :
        cols \in UNION {[1..n -> CodecColumns] : n \in 1..2}, range \in BOOLEAN}

CodecScalars ==
    {HBool(b) : b \in BOOLEAN} \cup {HNone} \cup {HInt("1")}
        \cup {HFloat(f) : f \in FloatValues} \cup {HNpFloat64(f) : f \in FiniteFloats}

\* Values a guest name may hold that did not come from the host.
CodecGuest ==
    {GNothing, GFloat("nan"), GFloat("0.5"), GBool(TRUE), GBool(FALSE), GInt("1"),
     GString(<<"c">>), GMatrix("m"), GVector("Bool", <<GBool(TRUE), GBool(FALSE)>>)}

\* The empty containers of the host.
CodecEmpty == {HList(<<>>), HDict(<<>>), HSet(<<>>)}

\* Containers of the guest at the edges of the decoder's routines: the
\* vectors of one element of each element type that has a routine, the
\* empty vector, set and mapping, and a mapping whose key is not a text.
GComplex(re, im) == [k |-> "Complex", v |-> <<re, im>>]
CodecSingles ==
    {GVector("Int", <<GInt("1")>>), GVector("Float64", <<GFloat("0.5")>>),
     GVector("Complex", <<GComplex("0.5", "0.5")>>),
     GVector("String", <<GString(<<"c">>)>>), GVector("Bool", <<GBool(TRUE)>>)}
CodecEdges ==
    CodecSingles \cup
    {GVector("Any", <<>>), GVector("Int", <<>>),
     [k |-> "Set", v |-> <<>>], [k |-> "Dict", v |-> <<>>],
     [k |-> "Dict", v |-> << <<GInt("1"), GInt("1")>> >>]}

InitCodec ==
    /\ loaded = {}
    /\ submitted = [p \in DOMAIN julia_install_package |-> 0]
    /\ pending = {}
    /\ modules = {}
    /\ nfiles = 0
    /\ call = NoCall
    /\ \/ rt \in [stage : {"host"},
                  v : CodecScalars \cup CodecLists \cup CodecDicts \cup CodecTables
                        \cup CodecEmpty,
                  x : {HNone}]
       \/ \E value \in CodecGuest \cup CodecEdges : rt = [stage |-> "guest", v |-> value, x |-> value]

\* The orders in which the guest may iterate over a value: a Dict is
\* iterated in the order of its hash table, which is not the order of
\* insertion; any other value has one order.
JuliaOrders(value) ==
    IF value.k # "Dict" THEN {value}
    ELSE {[value EXCEPT !.v = [i \in DOMAIN value.v |-> value.v[p[i]]]] :
             p \in {q \in [DOMAIN value.v -> DOMAIN value.v] :
                       \A i, j \in DOMAIN value.v : i # j => q[i] # q[j]}}

\* _julia_repr(v) on a host that has the feather module.
Codec_julia_repr ==
    /\ rt.stage = "host"
    /\ LET r == julia_repr(rt.v, [feather |-> TRUE, tmp |-> NamedTemporaryFile(nfiles)])
       IN  rt' = IF r.k = "raise"
                 THEN [rt EXCEPT !.stage = "raised", !.x = Error(r.v)]
                 ELSE [rt EXCEPT !.stage = "emitted", !.x = r.v]
    /\ UNCHANGED <<loaded, submitted, pending, modules, nfiles, call>>

\* The guest evaluates the emitted expression, with the reader of staged
\* files defined or not.
Codec_run_cell ==
    /\ rt.stage = "emitted"
    /\ \E mods \in {{}, {"Feather", "DataFrame"}} :
         LET value == JuliaEval(rt.x, [modules |-> mods,
                                       files |-> {NamedTemporaryFile(nfiles)}])
         IN  IF IsError(value)
             THEN rt' = [rt EXCEPT !.stage = "unbound", !.x = value]
             ELSE \E ordered \in JuliaOrders(value) :
                     rt' = [rt EXCEPT !.stage = "guest", !.x = ordered]
    /\ UNCHANGED <<loaded, submitted, pending, modules, nfiles, call>>

\* __julia_py_repr(x) in the guest, with any of the optional modules
\* defined: the answer, or no answer when the routine throws.
Codec_julia_py_repr ==
    /\ rt.stage = "guest"
    /\ \E mods \in SUBSET {"Feather", "DataFrame"} :
         LET response == get_response(rt.x, [modules |-> mods, tmp |-> tempname(nfiles)])
         IN  rt' = IF response = <<>>
                   THEN [rt EXCEPT !.stage = "no answer", !.x = Error("throws")]
                   ELSE [rt EXCEPT !.stage = "answered", !.x = response[1].v]
    /\ UNCHANGED <<loaded, submitted, pending, modules, nfiles, call>>

\* eval(eval(answer)) on the host, for an answer that is not a sentinel.
Codec_eval ==
    /\ rt.stage = "answered"
    /\ rt.x.k # "REQUIRE"
    /\ LET value == PyEval(Transport(rt.x), [feather |-> TRUE,
                                             files |-> {tempname(nfiles)}])
       IN  rt' = IF IsError(value)
                 THEN [rt EXCEPT !.stage = "failed", !.x = value]
                 ELSE [rt EXCEPT !.stage = "done", !.x = value]
    /\ UNCHANGED <<loaded, submitted, pending, modules, nfiles, call>>

NextCodec == Codec_julia_repr \/ Codec_run_cell \/ Codec_julia_py_repr \/ Codec_eval

SpecCodec == InitCodec /\ [][NextCodec]_vars

\* The stages at which a chain ends, and whether it began in the host.
CodecEnded == rt.stage \in {"raised", "unbound", "no answer", "failed", "done"}
FromHost == rt.v.k \in {"bool", "int", "float", "numpy.float64", "str", "NoneType",
                        "list", "dict", "set", "DataFrame"}

----------------------------------------------------------------------------
(* The claims about the codecs, checked under SpecCodec.                   *)

\* The guest scalars of CodecGuest, and the two the decoder answers None for.
GuestScalar == rt.v.k \in {"Nothing", "Float64", "Bool", "Int", "String"}
DecodedNone == rt.stage = "done" /\ rt.x.k = "NoneType"

\* C11 as stated: null sentinel symmetry.  Host None is emitted as NaN and
\* the guest binds the name to the Float64 NaN, never to nothing; of the
\* guest's scalars only NaN is decoded to host None, nothing is not.
C11_OnlyNaNIsNone ==
    /\ (rt.stage = "emitted" /\ rt.v.k = "NoneType") =>
            rt.x.k = "word" /\ rt.x.v = "NaN"
    /\ (rt.stage = "guest" /\ rt.v.k = "NoneType") =>
            rt.x.k = "Float64" /\ rt.x.v = "nan"
    /\ (CodecEnded /\ GuestScalar) =>
            (DecodedNone <=> (rt.v.k = "Float64" /\ rt.v.v = "nan"))

\* C11 amended: host None is emitted as NaN and the guest binds the name to
\* the Float64 NaN, never to nothing; on import the decoder answers None
\* for NaN and for nothing alike, and for no other scalar, so host None
\* comes back as None.
C11_NullSentinel ==
    /\ (rt.stage = "emitted" /\ rt.v.k = "NoneType") =>
            rt.x.k = "word" /\ rt.x.v = "NaN"
    /\ (rt.stage = "guest" /\ rt.v.k = "NoneType") =>
            rt.x.k = "Float64" /\ rt.x.v = "nan"
    /\ (CodecEnded /\ GuestScalar) =>
            (DecodedNone <=>
                (rt.v.k = "Nothing" \/ (rt.v.k = "Float64" /\ rt.v.v = "nan")))
    /\ (CodecEnded /\ rt.v.k = "NoneType") => DecodedNone

\* The guest's nothing was imported, and the host got None.
C11_Witness == rt.v.k = "Nothing" /\ DecodedNone

\* C12: every host float, a Python float as well as a numpy.float64, is
\* emitted wrapped in the guest's double-precision constructor Float64(...)
\* and not as a bare literal, and encoding it never raises.
C12_Float64Wrapper ==
    (rt.stage \in {"emitted", "raised"} /\ rt.v.k \in {"float", "numpy.float64"}) =>
        rt.stage = "emitted" /\ rt.x.k = "Float64"

\* C14: booleans are resolved before integers in both directions, and a
\* Matrix before a generic array.  A host bool is always emitted as the word
\* true or false, never as a number; a guest Bool is always answered with
\* the word True or False and read by the host as that bool, never as an
\* int; a guest Matrix is always answered by the matrix routine, which
\* requires a package or stages a file.
C14_BoolBeforeInt ==
    /\ (rt.stage \in {"emitted", "raised"} /\ rt.v.k = "bool") =>
            /\ rt.stage = "emitted"
            /\ rt.x.k = "word"
            /\ rt.x.v = (IF rt.v.v THEN "true" ELSE "false")
    /\ (CodecEnded /\ rt.v.k = "bool") =>
            rt.stage = "done" /\ rt.x.k = "bool" /\ rt.x.v = rt.v.v
    /\ (rt.stage \in {"answered", "no answer"} /\ rt.v.k = "Bool") =>
            /\ rt.stage = "answered"
            /\ rt.x.k = "word"
            /\ rt.x.v = (IF rt.v.v THEN "True" ELSE "False")
    /\ (CodecEnded /\ rt.v.k = "Bool") =>
            rt.stage = "done" /\ rt.x.k = "bool" /\ rt.x.v = rt.v.v
    /\ (rt.stage \in {"answered", "no answer"} /\ rt.v.k = "Matrix") =>
            /\ rt.stage = "answered"
            /\ rt.x.k \in {"REQUIRE", "numpy.asmatrix(read_dataframe)"}

\* The guest's true was imported as the host's True.
C14_Witness ==
    /\ rt.stage = "done" /\ rt.v.k = "Bool" /\ rt.v.v
    /\ rt.x.k = "bool" /\ rt.x.v

\* C15: order preservation.  Every host sequence and every host mapping
\* that is exported and imported again comes back with its elements (a
\* sequence) or its keys (a mapping) in the original order.
C15_OrderPreserved ==
    (CodecEnded /\ rt.v.k \in {"list", "dict"}) =>
        /\ rt.stage = "done"
        /\ IF rt.v.k = "list"
           THEN /\ rt.x.k \in {"list", "numpy.ndarray"}
                /\ Len(rt.x.v) = Len(rt.v.v)
                /\ \A i \in DOMAIN rt.v.v : PyEq(rt.x.v[i], rt.v.v[i])
           ELSE /\ rt.x.k = "dict"
                /\ Len(rt.x.v) = Len(rt.v.v)
                /\ \A i \in DOMAIN rt.v.v : rt.x.v[i][1].v = rt.v.v[i][1].v

\* C16: homogeneous numeric array.  A host sequence of two or more integers
\* that is exported and imported again comes back as a typed numeric array
\* whose elements are the original integers, in order.
C16_NumericArray ==
    (/\ CodecEnded
     /\ rt.v.k = "list"
     /\ Len(rt.v.v) >= 2
     /\ \A i \in DOMAIN rt.v.v : rt.v.v[i].k = "int") =>
        /\ rt.stage = "done"
        /\ rt.x.k = "numpy.ndarray"
        /\ Len(rt.x.v) = Len(rt.v.v)
        /\ \A i \in DOMAIN rt.v.v :
              rt.x.v[i].k = "numpy.int64" /\ rt.x.v[i].v = rt.v.v[i].v

\* C17: mixed-type sequence.  A host sequence whose elements are of two or
\* more of the primitive types bool, int, float and text, exported and
\* imported again, comes back as a sequence that holds at every position a
\* value equal to the original one and of its type.
C17_MixedSequence ==
    (/\ CodecEnded
     /\ rt.v.k = "list"
     /\ \A i \in DOMAIN rt.v.v : rt.v.v[i].k \in {"bool", "int", "float", "str"}
     /\ \E i, j \in DOMAIN rt.v.v : rt.v.v[i].k # rt.v.v[j].k) =>
        /\ rt.stage = "done"
        /\ rt.x.k \in {"list", "numpy.ndarray"}
        /\ Len(rt.x.v) = Len(rt.v.v)
        /\ \A i \in DOMAIN rt.v.v :
              /\ IsInstance(rt.x.v[i], {rt.v.v[i].k})
              /\ IsInstance(rt.v.v[i], {rt.x.v[i].k}) \/ rt.x.v[i].k = "numpy.float64"
              /\ PyEq(rt.x.v[i], rt.v.v[i])

\* The cells of a written column are those of the column c, or c's cells
\* coerced to text.
SameCells(written, c) ==
    /\ Len(written) = Len(c)
    /\ \A j \in DOMAIN c : written[j].k = c[j].k /\ written[j].v = c[j].v
TextCells(written, c) ==
    /\ Len(written) = Len(c)
    /\ \A j \in DOMAIN c : written[j].k = "str" /\ written[j].v = PyStr(c[j])

\* C19 as stated: staged write repair.  When the first write of a table
\* fails, every column of the table is coerced to text for the one retry,
\* so what a successful retry wrote holds text only; a retry that fails
\* surfaces as the exception of the writer.
C19_CoerceEveryColumn ==
    (/\ rt.stage \in {"emitted", "raised"}
     /\ rt.v.k = "DataFrame"
     /\ ~FeatherWritable(rt.v.v.cols)) =>
        IF rt.stage = "emitted"
        THEN \A i \in DOMAIN rt.v.v.cols : TextCells(rt.x.v[2][i], rt.v.v.cols[i])
        ELSE rt.x.v = "ArrowError"

\* C19 amended: a table whose first write succeeds is staged as it is.  When
\* the first write fails, the columns that are not of homogeneous type are
\* coerced to text, the other columns are left as they are, and the write is
\* retried once: what a successful retry wrote is the table so repaired, and
\* the retry fails, and surfaces as the exception of the writer, exactly
\* when the repaired table is still not writable.
C19_RepairMixedColumns ==
    (rt.stage \in {"emitted", "raised"} /\ rt.v.k = "DataFrame") =>
        LET cols == rt.v.v.cols
            kept(i) == homogeneous_type(cols[i])
        IN  IF FeatherWritable(cols)
            THEN /\ rt.stage = "emitted"
                 /\ \A i \in DOMAIN cols : SameCells(rt.x.v[2][i], cols[i])
            ELSE IF rt.stage = "emitted"
            THEN /\ \A i \in DOMAIN cols :
                       IF kept(i) THEN SameCells(rt.x.v[2][i], cols[i])
                       ELSE TextCells(rt.x.v[2][i], cols[i])
                 /\ \A i \in DOMAIN cols : kept(i) => FeatherWritable(<<cols[i]>>)
            ELSE /\ rt.x.v = "ArrowError"
                 /\ \E i \in DOMAIN cols : kept(i) /\ ~FeatherWritable(<<cols[i]>>)

\* A retry succeeded on a table of which one column was coerced to text and
\* another was left as it was.
C19_Witness ==
    /\ rt.stage = "emitted" /\ rt.v.k = "DataFrame"
    /\ ~FeatherWritable(rt.v.v.cols)
    /\ \E i, j \in DOMAIN rt.v.v.cols :
          /\ ~homogeneous_type(rt.v.v.cols[i])
          /\ TextCells(rt.x.v[2][i], rt.v.v.cols[i])
          /\ rt.v.v.cols[j][1].k = "int"
          /\ SameCells(rt.x.v[2][j], rt.v.v.cols[j])

----------------------------------------------------------------------------
(* Further claims about the session, checked under Spec.                   *)

\* C21: PackageState invariant.  In every reachable state the loaded set
\* holds only keys of julia_install_package; across any sequence of load,
\* get_vars and put_vars calls it only grows, and it changes only as load
\* changes it: every package a step adds had its install snippet handed to
\* run_cell in that step.
C21_PackageState ==
    /\ [](loaded \subseteq DOMAIN julia_install_package)
    /\ [][/\ loaded \subseteq loaded'
          /\ \A p \in loaded' \ loaded :
                submitted'[p] = submitted[p] + 1 /\ p \in pending']_vars

\* put_vars has grown the loaded set to two packages.
C21_Witness ==
    /\ call.op = "put_vars"
    /\ loaded = {"dataframes", "feather"}
    /\ submitted["dataframes"] = 1 /\ submitted["feather"] = 1

----------------------------------------------------------------------------
(* Further claims about the codecs, checked under SpecCodec.               *)

\* C22: the guest-side decoder never raises.  For every guest value,
\* containers at the edges included, __julia_py_repr answers with a transfer
\* expression, a sentinel or the placeholder: no call of it ends without an
\* answer.
C22_DecoderNeverRaises == rt.stage # "no answer"

\* Two answers of the decoder are the same transfer expression.
SameExpr(a, b) ==
    /\ a.k = b.k
    /\ IF a.k = "numpy.float64"
       THEN a.v.k = b.v.k /\ (a.v.k = "text" => a.v.v = b.v.v)
       ELSE a.v = b.v

\* C23: a single-element typed guest vector is treated as a single value.
\* For a guest vector of one element of type Int, Float64, Complex, String
\* or Bool the decoder answers with the transfer expression it answers with
\* for that element on its own.
C23_SingleElementVector ==
    (/\ rt.stage \in {"answered", "no answer"}
     /\ rt.v.k = "Vector"
     /\ rt.v.v[1] \in {"Int", "Float64", "Complex", "String", "Bool"}
     /\ Len(rt.v.v[2]) = 1) =>
        /\ rt.stage = "answered"
        /\ SameExpr(rt.x, julia_py_repr(rt.v.v[2][1],
                                        [modules |-> {}, tmp |-> tempname(nfiles)]).v)

\* The orders the elements of a sequence can be put in.
Reorderings(seq) ==
    {[i \in DOMAIN seq |-> seq[p[i]]] :
        p \in {q \in [DOMAIN seq -> DOMAIN seq] :
                  \A i, j \in DOMAIN seq : i # j => q[i] # q[j]}}

\* C24: homogeneous_type does not depend on the position of the elements.
\* For every column the repair pass of a table tests, homogeneous_type gives
\* the same answer for the column and for every reordering of its cells.
C24_PermutationInvariant ==
    (/\ rt.stage \in {"emitted", "raised"}
     /\ rt.v.k = "DataFrame"
     /\ ~FeatherWritable(rt.v.v.cols)) =>
        \A i \in DOMAIN rt.v.v.cols :
            \A reordered \in Reorderings(rt.v.v.cols[i]) :
                homogeneous_type(reordered) = homogeneous_type(rt.v.v.cols[i])

\* C25: empty containers round-trip.  An empty host sequence, mapping or set
\* that is exported and imported again comes back, without failure, as an
\* empty host container of the same type.
C25_EmptyRoundTrip ==
    (/\ CodecEnded
     /\ rt.v.k \in {"list", "dict", "set"}
     /\ Len(rt.v.v) = 0) =>
        /\ rt.stage = "done"
        /\ rt.x.k = rt.v.k
        /\ Len(rt.x.v) = 0

====
